---- MODULE Spec2Model ----
(***************************************************************************)
(* Model of the n8n Hedera node, nodes/Hedera/Hedera.node.ts: the execute  *)
(* method, its per-item dispatch on (resource, operation), the calls it    *)
(* makes to the Hedera SDK and the way it turns outcomes into result       *)
(* records.  The SDK and the network are the environment: every SDK call   *)
(* that goes to the network either resolves, rejects, or stays pending.    *)
(***************************************************************************)
EXTENDS Integers, Sequences, FiniteSets, TLC

(* Largest batch (items.length) explored. *)
MaxItems == 2

(* Longest byte sequence handed to getTransactionBytes on its own. *)
MaxBytes == 3

(***************************************************************************)
(* Values                                                                  *)
(***************************************************************************)
OperatorId == "0.0.1001"
OperatorKey == "302e-operator-key"
OtherId == "0.0.2002"
CreatedId == "0.0.3003"
NoAccountId == "null"

(* creds as getCredentials returns them; defined = FALSE is an absent      *)
(* credential object (creds?.accountId is then undefined).                 *)
Credentials ==
    {[defined |-> FALSE, accountId |-> "", privateKey |-> ""]}
    \cup [defined : {TRUE}, accountId : {"", OperatorId, OtherId}, privateKey : {"", OperatorKey}]

(* JavaScript truthiness of a string. *)
Truthy(s) == s # ""

(* The credentials check with its second operand forgotten. *)
CredentialsMissingNoKey(c) ==
    \/ ~c.defined
    \/ ~Truthy(c.accountId)

(* The guard of the credentials check: !creds?.accountId || !creds.privateKey *)
CredentialsMissing(c) ==
    \/ ~c.defined
    \/ ~Truthy(c.accountId)
    \/ ~Truthy(c.privateKey)

NoError == [kind |-> "none"]
NodeOperationError(msg) == [kind |-> "NodeOperationError", message |-> msg]
SdkError(msg) == [kind |-> "SdkError", message |-> msg]
NodeApiError(err) == [kind |-> "NodeApiError", message |-> err.message, cause |-> err.kind]

(***************************************************************************)
(* Bytes and base64.  A byte is 0..255; a base64 string is a sequence of   *)
(* digit values 0..63, with 64 standing for the padding character '='.    *)
(***************************************************************************)
B64Pad == 2^6

RECURSIVE ToBase64(_)
(* Buffer.toString('base64'): three bytes to four digits, padded. *)
ToBase64(b) ==
    IF Len(b) = 0 THEN <<>>
    ELSE IF Len(b) = 1 THEN
        <<b[1] \div 4, (b[1] % 4) * 16, B64Pad, B64Pad>>
    ELSE IF Len(b) = 2 THEN
        <<b[1] \div 4, (b[1] % 4) * 16 + b[2] \div 16, (b[2] % 16) * 4, B64Pad>>
    ELSE
        <<b[1] \div 4, (b[1] % 4) * 16 + b[2] \div 16,
          (b[2] % 16) * 4 + b[3] \div 64, b[3] % 64>>
        \o ToBase64(SubSeq(b, 4, Len(b)))

RECURSIVE B64Digits(_)
(* The digits of a base64 string up to its first padding character. *)
B64Digits(s) ==
    IF Len(s) = 0 \/ s[1] = B64Pad THEN <<>>
    ELSE <<s[1]>> \o B64Digits(Tail(s))

RECURSIVE B64Bytes(_)
B64Bytes(d) ==
    IF Len(d) < 2 THEN <<>>
    ELSE IF Len(d) = 2 THEN <<d[1] * 4 + d[2] \div 16>>
    ELSE IF Len(d) = 3 THEN
        <<d[1] * 4 + d[2] \div 16, (d[2] % 16) * 16 + d[3] \div 4>>
    ELSE
        <<d[1] * 4 + d[2] \div 16, (d[2] % 16) * 16 + d[3] \div 4,
          (d[3] % 4) * 64 + d[4]>>
        \o B64Bytes(SubSeq(d, 5, Len(d)))

(* Buffer.from(txBase64, 'base64') *)
FromBase64(s) == B64Bytes(B64Digits(s))

(* The serialized transaction the transaction items carry. *)
TxBytes == <<18, 52, 86, 7>>

(***************************************************************************)
(* JavaScript values of the transactionBuffer parameter.  An object is a   *)
(* record of its own fields; every other value is a record tagged with its *)
(* type.                                                                   *)
(***************************************************************************)
JsArray(items) == [type |-> "array", items |-> items]
JsString(chars) == [type |-> "string", chars |-> chars]
JsNumber(n) == [type |-> "number", n |-> n]
JsNull == [type |-> "null"]
JsUndefined == [type |-> "undefined"]

(* Array.isArray(v) *)
IsArray(v) == DOMAIN v = {"type", "items"} /\ v.type = "array"

IsObject(v) == "type" \notin DOMAIN v

(* v?.f: the field of an object, undefined for anything else. *)
Get(v, f) == IF IsObject(v) /\ f \in DOMAIN v THEN v[f] ELSE JsUndefined

(* The truthiness an if-condition gives a value. *)
JsTruthy(v) ==
    IF IsObject(v) \/ IsArray(v) THEN TRUE
    ELSE IF v.type = "string" THEN v.chars # <<>>
    ELSE IF v.type = "number" THEN v.n # 0
    ELSE FALSE

(* Buffer.from(data): the elements of an array as bytes, the UTF-8 bytes   *)
(* of a string (ASCII here), a TypeError for anything else.                *)
BufferFrom(data) ==
    IF IsArray(data)
    THEN [ok |-> TRUE, bytes |-> [k \in DOMAIN data.items |-> data.items[k] % 256]]
    ELSE IF ~IsObject(data) /\ data.type = "string"
    THEN [ok |-> TRUE, bytes |-> data.chars]
    ELSE [ok |-> FALSE,
          err |-> [kind |-> "TypeError",
                   message |-> <<"The first argument must be of type string or an instance of Buffer, ArrayBuffer, or Array or an Array-like Object.">>]]

(***************************************************************************)
(* Node parameters of one item, as getNodeParameter(name, i) returns them. *)
(* A parameter the item's operation does not read holds its default.       *)
(***************************************************************************)
DefaultParams ==
    [resource |-> "account", accountOperation |-> "create",
     transactionOperation |-> "sign", initialBalance |-> 0,
     recipientId |-> "", amount |-> 0, transactionFormat |-> "base64",
     transaction |-> <<>>, transactionBuffer |-> [other |-> 0]]

CreateParams ==
    {[DefaultParams EXCEPT !.initialBalance = b] : b \in {-1, 5}}

TransferParams ==
    {[DefaultParams EXCEPT !.accountOperation = "transfer",
                           !.recipientId = ra[1], !.amount = ra[2]] :
        ra \in {<<OtherId, 2>>, <<OtherId, 0>>, <<OtherId, -1>>, <<OperatorId, 2>>}}

(* The transaction as a base64 string, as an object with a data array, and *)
(* as an object getTransactionBytes refuses.                               *)
TransactionPayloads ==
    {[DefaultParams EXCEPT !.resource = "transaction", !.transaction = ToBase64(TxBytes)],
     [DefaultParams EXCEPT !.resource = "transaction", !.transactionFormat = "buffer",
                           !.transactionBuffer = [data |-> JsArray(TxBytes)]],
     [DefaultParams EXCEPT !.resource = "transaction", !.transactionFormat = "buffer"]}

TransactionParams ==
    {[p EXCEPT !.transactionOperation = op] :
        p \in TransactionPayloads, op \in {"sign", "submit", "signAndSubmit"}}

UnsupportedParams ==
    {[DefaultParams EXCEPT !.resource = "token"],
     [DefaultParams EXCEPT !.accountOperation = "delete"],
     [DefaultParams EXCEPT !.resource = "transaction", !.transactionOperation = "freeze",
                           !.transaction = ToBase64(TxBytes)]}

ItemPool ==
    CreateParams \cup TransferParams \cup TransactionParams \cup UnsupportedParams

(***************************************************************************)
(* SDK values                                                              *)
(***************************************************************************)
(* new Hbar(amount): the amount in tinybars. *)
Hbar(amount) == amount * 10^8

(* Hbar.negated() *)
Negated(hbar) == 0 - hbar

(* PrivateKey.generateED25519() for item k, and its publicKey. *)
GeneratedKey(k) == [private |-> <<"generated", k>>]
PublicKey(key) == [public |-> key.private]

(* new AccountCreateTransaction().setKey(k).setInitialBalance(new Hbar(b)) *)
AccountCreateTransaction(publicKey, initialBalance) ==
    [type |-> "AccountCreate", key |-> publicKey, initialBalance |-> Hbar(initialBalance)]

(* TransferTransaction.addHbarTransfer(accountId, hbar) *)
AddHbarTransfer(tx, accountId, hbar) ==
    [tx EXCEPT !.transfers = Append(@, [accountId |-> accountId, amount |-> hbar])]

(* A transfer whose sender entry is not negated. *)
TransferTransactionNotNegated(accountId, recipientId, amount) ==
    LET hbarAmount == Hbar(amount)
        empty == [type |-> "Transfer", transfers |-> <<>>]
    IN AddHbarTransfer(AddHbarTransfer(empty, accountId, hbarAmount),
                       recipientId, hbarAmount)

(* new TransferTransaction().addHbarTransfer(accountId, hbarAmount.negated())
                            .addHbarTransfer(recipientId, hbarAmount) *)
TransferTransaction(accountId, recipientId, amount) ==
    LET hbarAmount == Hbar(amount)
        empty == [type |-> "Transfer", transfers |-> <<>>]
    IN AddHbarTransfer(AddHbarTransfer(empty, accountId, Negated(hbarAmount)),
                       recipientId, hbarAmount)

Range(s) == {s[k] : k \in DOMAIN s}

(* The byte a signature by this key adds to the serialized transaction. *)
SignatureByte(key) == IF key = OperatorKey THEN 255 ELSE 254

(* Transaction.fromBytes(txBuffer), when it parses. *)
FromBytes(bytes) == [type |-> "Decoded", bytes |-> bytes]

(* The SDK's parser rejects an empty buffer; whether it accepts another    *)
(* one is the SDK's decision.                                              *)
ParseOutcomes(bytes) == IF bytes = <<>> THEN {FALSE} ELSE BOOLEAN

(* transaction.sign(PrivateKey.fromString(privKeyStr)): adds the key's     *)
(* signature unless the transaction already carries it.                    *)
Sign(tx, key) ==
    IF SignatureByte(key) \in Range(tx.bytes) THEN tx
    ELSE [tx EXCEPT !.bytes = Append(@, SignatureByte(key))]

(* signedTx.toBytes() *)
ToBytes(tx) == tx.bytes

InvalidBufferError ==
    NodeOperationError(<<"Invalid buffer object format. Expected object with data array or direct array.">>)

(* getTransactionBytes: the bytes of the item's transaction, or the error  *)
(* it throws.  Each if tests the truthiness of the field it then reads.    *)
GetTransactionBytes(p) ==
    IF p.transactionFormat = "base64" THEN
        [ok |-> TRUE, bytes |-> FromBase64(p.transaction)]
    ELSE
        LET bufferObj == p.transactionBuffer IN
        IF JsTruthy(Get(bufferObj, "data")) THEN BufferFrom(Get(bufferObj, "data"))
        ELSE IF JsTruthy(Get(Get(bufferObj, "transBytes"), "data"))
        THEN BufferFrom(Get(Get(bufferObj, "transBytes"), "data"))
        ELSE IF JsTruthy(Get(Get(bufferObj, "transBase64"), "data"))
        THEN BufferFrom(Get(Get(bufferObj, "transBase64"), "data"))
        ELSE IF IsArray(bufferObj) THEN BufferFrom(bufferObj)
        ELSE [ok |-> FALSE, err |-> InvalidBufferError]

(* What the network answers *)
Statuses == {"SUCCESS", "INSUFFICIENT_ACCOUNT_BALANCE"}

(* txId.getReceipt(client), when it resolves: create receipts may carry    *)
(* the new account's id.                                                   *)
Receipts(p) ==
    IF p.resource = "account" /\ p.accountOperation = "create"
    THEN {[status |-> "SUCCESS", accountId |-> CreatedId],
          [status |-> "SUCCESS", accountId |-> NoAccountId],
          [status |-> "INSUFFICIENT_ACCOUNT_BALANCE", accountId |-> NoAccountId]}
    ELSE [status : Statuses, accountId : {NoAccountId}]

(* Errors the SDK rejects a network call with. *)
ExecuteErrors == {SdkError(<<"transaction failed precheck">>)}
ReceiptErrors == {SdkError(<<"max attempts exceeded">>)}

(* The TransactionResponse of item k's submission. *)
TransactionResponse(k) ==
    [transactionId |-> <<"txid", k>>, nodeId |-> "0.0.3", transactionHash |-> <<k, 171>>]
NoResponse == [transactionId |-> <<>>]

(* Buffer.toString('hex') *)
ToHex(bytes) == [k \in DOMAIN bytes |-> <<bytes[k] \div 16, bytes[k] % 16>>]

(***************************************************************************)
(* Result records                                                          *)
(***************************************************************************)
CreateResult(receipt, newPrivateKey) ==
    [newAccountId |-> receipt.accountId,
     newAccountPublicKey |-> PublicKey(newPrivateKey),
     newAccountPrivateKey |-> newPrivateKey]

(* A transfer result that reports success whatever the receipt says. *)
TransferResultAlwaysSuccess(receipt, response) ==
    [status |-> "SUCCESS", transactionId |-> response.transactionId]

TransferResult(receipt, response) ==
    [status |-> receipt.status, transactionId |-> response.transactionId]

SignResult(signedTx) ==
    [signedTransaction |-> ToBase64(ToBytes(signedTx))]

SubmitResult(receipt, response) ==
    [transactionId |-> response.transactionId, nodeId |-> response.nodeId,
     transactionHash |-> ToHex(response.transactionHash), status |-> receipt.status]

SignAndSubmitResult(receipt, response, signedTx) ==
    [transactionId |-> response.transactionId, nodeId |-> response.nodeId,
     transactionHash |-> ToHex(response.transactionHash), status |-> receipt.status,
     signedTransaction |-> ToBase64(ToBytes(signedTx))]

ErrorResult(err) == [error |-> err.message]

(***************************************************************************)
(* State                                                                   *)
(***************************************************************************)
(* No getTransactionBytes call has returned. *)
NoBuffer == [ok |-> FALSE, err |-> NoError]

VARIABLES
    creds,          \* the decrypted credentials
    continueOnFail, \* what this.continueOnFail() returns
    nItems,         \* items.length
    pc,             \* where execute is: start, loop, awaitExecute, awaitReceipt, returned, thrown
    i,              \* the loop index, counted from 1
    returnData,     \* the result records pushed so far
    thrown,         \* the error execute has thrown, NoError if none
    txResponse,     \* the TransactionResponse of the item in flight
    params,         \* params[k]: the parameters item k was processed with
    calls,          \* calls[k]: the SDK calls made for item k, in order
    network,        \* the transactions handed to the network, in order
    receipts,       \* the receipts the network returned, in order
    failed,         \* the exceptions that left a try block: item and message
    returnedBuffer  \* what a getTransactionBytes call made on its own returned

vars == <<returnedBuffer, creds, continueOnFail, nItems, pc, i, returnData, thrown, txResponse,
          params, calls, network, receipts, failed>>

Init ==
    /\ creds \in Credentials
    /\ continueOnFail \in BOOLEAN
    /\ nItems \in 0..MaxItems
    /\ pc = "start"
    /\ i = 1
    /\ returnData = <<>>
    /\ thrown = NoError
    /\ txResponse = NoResponse
    /\ params = <<>>
    /\ calls = <<>>
    /\ network = <<>>
    /\ receipts = <<>>
    /\ failed = {}
    /\ returnedBuffer = NoBuffer

(* The credentials check and the client's set-up. *)
CheckCredentials ==
    /\ pc = "start"
    /\ IF CredentialsMissing(creds)
       THEN /\ pc' = "thrown"
            /\ thrown' = NodeOperationError(<<"Hedera credentials are not set up correctly.">>)
       ELSE /\ pc' = "loop"
            /\ UNCHANGED thrown
    /\ UNCHANGED <<returnedBuffer, creds, continueOnFail, nItems, i, returnData, txResponse,
                   params, calls, network, receipts, failed>>

(* returnData.push({ json: result }), and on to the next item. *)
Push(result) ==
    /\ returnData' = Append(returnData, [json |-> result])
    /\ i' = i + 1
    /\ pc' = "loop"
    /\ UNCHANGED thrown

(* A catch block that continues without pushing the error record. *)
CatchNoRecord(err) ==
    IF continueOnFail
    THEN /\ i' = i + 1
         /\ pc' = "loop"
         /\ UNCHANGED <<returnData, thrown>>
    ELSE /\ pc' = "thrown"
         /\ thrown' = NodeApiError(err)
         /\ UNCHANGED <<returnData, i>>

(* A catch block that captures the error whatever the mode. *)
CatchAlwaysCaptures(err) ==
    /\ returnData' = Append(returnData, [json |-> ErrorResult(err)])
    /\ i' = i + 1
    /\ pc' = "loop"
    /\ UNCHANGED thrown

(* A catch block that, with continueOnFail off, drops the failed item and   *)
(* lets the loop go on.                                                    *)
CatchSkipsFailed(err) ==
    IF continueOnFail
    THEN /\ returnData' = Append(returnData, [json |-> ErrorResult(err)])
         /\ i' = i + 1
         /\ pc' = "loop"
         /\ UNCHANGED thrown
    ELSE /\ i' = i + 1
         /\ pc' = "loop"
         /\ UNCHANGED <<returnData, thrown>>

(* The catch block of the loop body. *)
Catch(err) ==
    IF continueOnFail
    THEN /\ returnData' = Append(returnData, [json |-> ErrorResult(err)])
         /\ i' = i + 1
         /\ pc' = "loop"
         /\ UNCHANGED thrown
    ELSE /\ pc' = "thrown"
         /\ thrown' = NodeApiError(err)
         /\ UNCHANGED <<returnData, i>>

(* An exception leaves the try block of item i. *)
Raise(err) ==
    /\ failed' = failed \cup {[item |-> i, message |-> err.message]}
    /\ Catch(err)

(* The item's result is pushed at the end of the try block. *)
Complete(result) ==
    /\ Push(result)
    /\ UNCHANGED failed

(* The parameters item i is processed with and the SDK calls made for it   *)
(* before the first network round trip.                                    *)
Begin(p, steps) ==
    /\ params' = Append(params, p)
    /\ calls' = Append(calls, steps)

(* tx.execute(client): the transaction goes to the network and execute     *)
(* awaits the response.                                                    *)
Execute(tx) ==
    /\ network' = Append(network, [item |-> i, tx |-> tx])
    /\ pc' = "awaitExecute"
    /\ UNCHANGED <<i, returnData, thrown, failed>>

AccountCreate(p) ==
    /\ Begin(p, <<"build", "execute">>)
    /\ Execute(AccountCreateTransaction(PublicKey(GeneratedKey(i)), p.initialBalance))

AccountTransfer(p) ==
    /\ Begin(p, <<"build", "execute">>)
    /\ Execute(TransferTransaction(creds.accountId, p.recipientId, p.amount))

UnsupportedAccountOperation(p) ==
    /\ Begin(p, <<>>)
    /\ Raise(NodeOperationError(<<"Unsupported account operation: ", p.accountOperation>>))
    /\ UNCHANGED network

DecodeError == SdkError(<<"failed to decode transaction">>)

TransactionSign(p) ==
    LET txBuffer == GetTransactionBytes(p) IN
    /\ UNCHANGED network
    /\ IF ~txBuffer.ok THEN Begin(p, <<>>) /\ Raise(txBuffer.err)
       ELSE \E parsed \in ParseOutcomes(txBuffer.bytes) :
            IF ~parsed THEN Begin(p, <<"decode">>) /\ Raise(DecodeError)
            ELSE /\ Begin(p, <<"decode", "sign">>)
                 /\ Complete(SignResult(Sign(FromBytes(txBuffer.bytes), creds.privateKey)))

TransactionSubmit(p) ==
    LET txBuffer == GetTransactionBytes(p) IN
    IF ~txBuffer.ok THEN Begin(p, <<>>) /\ Raise(txBuffer.err) /\ UNCHANGED network
    ELSE \E parsed \in ParseOutcomes(txBuffer.bytes) :
         IF ~parsed THEN Begin(p, <<"decode">>) /\ Raise(DecodeError) /\ UNCHANGED network
         ELSE /\ Begin(p, <<"decode", "execute">>)
              /\ Execute(FromBytes(txBuffer.bytes))

(* A sign-and-submit that executes the decoded transaction, not the signed one. *)
TransactionSignAndSubmitUnsigned(p) ==
    LET txBuffer == GetTransactionBytes(p) IN
    IF ~txBuffer.ok THEN Begin(p, <<>>) /\ Raise(txBuffer.err) /\ UNCHANGED network
    ELSE \E parsed \in ParseOutcomes(txBuffer.bytes) :
         IF ~parsed THEN Begin(p, <<"decode">>) /\ Raise(DecodeError) /\ UNCHANGED network
         ELSE /\ Begin(p, <<"decode", "sign", "execute">>)
              /\ Execute(FromBytes(txBuffer.bytes))

TransactionSignAndSubmit(p) ==
    LET txBuffer == GetTransactionBytes(p) IN
    IF ~txBuffer.ok THEN Begin(p, <<>>) /\ Raise(txBuffer.err) /\ UNCHANGED network
    ELSE \E parsed \in ParseOutcomes(txBuffer.bytes) :
         IF ~parsed THEN Begin(p, <<"decode">>) /\ Raise(DecodeError) /\ UNCHANGED network
         ELSE /\ Begin(p, <<"decode", "sign", "execute">>)
              /\ Execute(Sign(FromBytes(txBuffer.bytes), creds.privateKey))

UnsupportedTransactionOperation(p) ==
    /\ Begin(p, <<>>)
    /\ Raise(NodeOperationError(<<"Unsupported transaction operation: ", p.transactionOperation>>))
    /\ UNCHANGED network

UnsupportedResource(p) ==
    /\ Begin(p, <<>>)
    /\ Raise(NodeOperationError(<<"Unsupported resource: ", p.resource>>))
    /\ UNCHANGED network

(* A dispatch whose account branch lacks its final else: whatever is not   *)
(* create is taken for a transfer.                                         *)
DispatchNoAccountElse(p) ==
    IF p.resource = "account" THEN
        IF p.accountOperation = "create" THEN AccountCreate(p)
        ELSE AccountTransfer(p)
    ELSE IF p.resource = "transaction" THEN
        IF p.transactionOperation = "sign" THEN TransactionSign(p)
        ELSE IF p.transactionOperation = "submit" THEN TransactionSubmit(p)
        ELSE IF p.transactionOperation = "signAndSubmit" THEN TransactionSignAndSubmit(p)
        ELSE UnsupportedTransactionOperation(p)
    ELSE UnsupportedResource(p)

(* The dispatch of the loop body on resource and operation. *)
Dispatch(p) ==
    IF p.resource = "account" THEN
        IF p.accountOperation = "create" THEN AccountCreate(p)
        ELSE IF p.accountOperation = "transfer" THEN AccountTransfer(p)
        ELSE UnsupportedAccountOperation(p)
    ELSE IF p.resource = "transaction" THEN
        IF p.transactionOperation = "sign" THEN TransactionSign(p)
        ELSE IF p.transactionOperation = "submit" THEN TransactionSubmit(p)
        ELSE IF p.transactionOperation = "signAndSubmit" THEN TransactionSignAndSubmit(p)
        ELSE UnsupportedTransactionOperation(p)
    ELSE UnsupportedResource(p)

(* One iteration of the loop, up to its first await on the network. *)
StartItem ==
    /\ pc = "loop"
    /\ i <= nItems
    /\ \E p \in ItemPool : Dispatch(p)
    /\ UNCHANGED <<returnedBuffer, creds, continueOnFail, nItems, txResponse, receipts>>

(* execute(client) resolves with the TransactionResponse. *)
ExecuteResolves ==
    /\ pc = "awaitExecute"
    /\ txResponse' = TransactionResponse(i)
    /\ calls' = [calls EXCEPT ![i] = Append(@, "getReceipt")]
    /\ pc' = "awaitReceipt"
    /\ UNCHANGED <<returnedBuffer, creds, continueOnFail, nItems, i, returnData, thrown,
                   params, network, receipts, failed>>

(* execute(client) rejects. *)
ExecuteRejects ==
    /\ pc = "awaitExecute"
    /\ \E err \in ExecuteErrors : Raise(err)
    /\ UNCHANGED <<returnedBuffer, creds, continueOnFail, nItems, txResponse,
                   params, calls, network, receipts>>

(* A loop body that does not test receipt.accountId after a create. *)
HandleReceiptNoAccountCheck(p, receipt) ==
    IF p.resource = "account" /\ p.accountOperation = "create" THEN
        Complete(CreateResult(receipt, GeneratedKey(i)))
    ELSE IF p.resource = "account" THEN
        Complete(TransferResult(receipt, txResponse))
    ELSE IF p.transactionOperation = "submit" THEN
        Complete(SubmitResult(receipt, txResponse))
    ELSE
        Complete(SignAndSubmitResult(receipt, txResponse, network[Len(network)].tx))

(* What the loop body does with the receipt of item i. *)
HandleReceipt(p, receipt) ==
    IF p.resource = "account" /\ p.accountOperation = "create" THEN
        IF receipt.accountId = NoAccountId
        THEN Raise(NodeOperationError(<<"Account creation failed: ", receipt.status>>))
        ELSE Complete(CreateResult(receipt, GeneratedKey(i)))
    ELSE IF p.resource = "account" THEN
        Complete(TransferResult(receipt, txResponse))
    ELSE IF p.transactionOperation = "submit" THEN
        Complete(SubmitResult(receipt, txResponse))
    ELSE
        Complete(SignAndSubmitResult(receipt, txResponse, network[Len(network)].tx))

(* getReceipt(client) resolves with a receipt. *)
ReceiptResolves ==
    /\ pc = "awaitReceipt"
    /\ \E receipt \in Receipts(params[i]) :
        /\ receipts' = Append(receipts, [item |-> i, receipt |-> receipt])
        /\ HandleReceipt(params[i], receipt)
    /\ UNCHANGED <<returnedBuffer, creds, continueOnFail, nItems, txResponse, params, calls, network>>

(* getReceipt(client) rejects. *)
ReceiptRejects ==
    /\ pc = "awaitReceipt"
    /\ \E err \in ReceiptErrors : Raise(err)
    /\ UNCHANGED <<returnedBuffer, creds, continueOnFail, nItems, txResponse,
                   params, calls, network, receipts>>

(* The loop is over: return this.prepareOutputData(returnData). *)
Finish ==
    /\ pc = "loop"
    /\ i > nItems
    /\ pc' = "returned"
    /\ UNCHANGED <<returnedBuffer, creds, continueOnFail, nItems, i, returnData, thrown, txResponse,
                   params, calls, network, receipts, failed>>

Next ==
    \/ CheckCredentials
    \/ StartItem
    \/ ExecuteResolves
    \/ ExecuteRejects
    \/ ReceiptResolves
    \/ ReceiptRejects
    \/ Finish

Spec == Init /\ [][Next]_vars

(* The node runs whenever it can; the network owes it no answer. *)
FairSpec == Spec /\ WF_vars(CheckCredentials) /\ WF_vars(StartItem) /\ WF_vars(Finish)

(***************************************************************************)
(* Properties                                                              *)
(***************************************************************************)
IsErrorRecord(r) == "error" \in DOMAIN r.json

(* The items whose try block threw. *)
FailedItems == {f.item : f \in failed}

(* The success record r is the one item k's operation produces. *)
IsSuccessRecordOf(r, k) ==
    LET p == params[k] IN
    /\ ~IsErrorRecord(r)
    /\ IF p.resource = "account" /\ p.accountOperation = "create"
       THEN /\ DOMAIN r.json = {"newAccountId", "newAccountPublicKey", "newAccountPrivateKey"}
            /\ r.json.newAccountPrivateKey = [private |-> <<"generated", k>>]
       ELSE IF p.resource = "account"
       THEN /\ DOMAIN r.json = {"status", "transactionId"}
            /\ r.json.transactionId = <<"txid", k>>
       ELSE IF p.transactionOperation = "sign"
       THEN DOMAIN r.json = {"signedTransaction"}
       ELSE /\ {"status", "transactionId"} \subseteq DOMAIN r.json
            /\ r.json.transactionId = <<"txid", k>>

CredentialsValid == creds.defined /\ creds.accountId # "" /\ creds.privateKey # ""

(* C1: with continueOnFail true and valid credentials execute never        *)
(* throws; the records pushed so far are one per processed item, in input  *)
(* order; record k is an error record exactly when item k failed and is    *)
(* item k's success record otherwise; and when execute returns there are   *)
(* exactly nItems records.                                                 *)
C1_OneRecordPerItemInOrder ==
    (continueOnFail /\ CredentialsValid) =>
        /\ pc # "thrown"
        /\ pc \in {"loop", "returned"} => Len(returnData) = Len(params)
        /\ pc \in {"awaitExecute", "awaitReceipt"} => Len(returnData) = Len(params) - 1
        /\ pc = "returned" => Len(returnData) = nItems
        /\ \A k \in 1..Len(returnData) :
            /\ IsErrorRecord(returnData[k]) <=> k \in FailedItems
            /\ k \notin FailedItems => IsSuccessRecordOf(returnData[k], k)
            /\ k \in FailedItems =>
                /\ DOMAIN returnData[k].json = {"error"}
                /\ [item |-> k, message |-> returnData[k].json.error] \in failed

(* A batch of two whose first item failed and whose second succeeded. *)
C1_Witness ==
    /\ pc = "returned"
    /\ continueOnFail
    /\ nItems = 2
    /\ FailedItems = {1}
    /\ IsErrorRecord(returnData[1])
    /\ ~IsErrorRecord(returnData[2])

(* C2: when the credentials lack accountId or privateKey, execute throws   *)
(* the configuration error, whatever continueOnFail and the batch are: no  *)
(* item is processed, nothing reaches the network, no record is produced.  *)
C2_MissingCredentialsFailFirst ==
    (~creds.defined \/ creds.accountId = "" \/ creds.privateKey = "") =>
        /\ pc \in {"start", "thrown"}
        /\ pc = "thrown" =>
            thrown = [kind |-> "NodeOperationError",
                      message |-> <<"Hedera credentials are not set up correctly.">>]
        /\ params = <<>>
        /\ calls = <<>>
        /\ network = <<>>
        /\ returnData = <<>>

(* The configuration error thrown for a non-empty batch in continue-on-fail mode. *)
C2_Witness ==
    /\ pc = "thrown"
    /\ creds.defined /\ creds.accountId # "" /\ creds.privateKey = ""
    /\ continueOnFail
    /\ nItems > 0

(* The caller has opted into a failure mode: the one switch execute reads  *)
(* is continueOnFail(), which is off unless the caller turns it on.        *)
OptedIntoContinueOnFail == continueOnFail

Submissions(k) == {n \in DOMAIN network : network[n].item = k}

ReturnsStatus(p) ==
    \/ p.resource = "account" /\ p.accountOperation = "transfer"
    \/ p.resource = "transaction" /\ p.transactionOperation \in {"submit", "signAndSubmit"}

(* C4: for transfer, submit and signAndSubmit, whenever the network returns *)
(* a receipt the item does not fail and its record is a normal record whose *)
(* status is the receipt's status, a non-success status included.           *)
C4_ReceiptStatusVerbatim ==
    \A n \in DOMAIN receipts :
        LET k == receipts[n].item IN
        ReturnsStatus(params[k]) =>
            /\ k \notin FailedItems
            /\ k <= Len(returnData)
            /\ ~IsErrorRecord(returnData[k])
            /\ returnData[k].json.status = receipts[n].receipt.status

(* A transfer whose receipt says INSUFFICIENT_ACCOUNT_BALANCE, in its record. *)
C4_Witness ==
    \E n \in DOMAIN receipts :
        /\ params[receipts[n].item].accountOperation = "transfer"
        /\ params[receipts[n].item].resource = "account"
        /\ receipts[n].receipt.status = "INSUFFICIENT_ACCOUNT_BALANCE"
        /\ returnData[receipts[n].item].json.status = "INSUFFICIENT_ACCOUNT_BALANCE"

(* The value of an item that no handler supports, <<>> if it has one. *)
OffendingValue(p) ==
    IF p.resource \notin {"account", "transaction"} THEN <<p.resource>>
    ELSE IF p.resource = "account" /\ p.accountOperation \notin {"create", "transfer"}
    THEN <<p.accountOperation>>
    ELSE IF p.resource = "transaction"
            /\ p.transactionOperation \notin {"sign", "submit", "signAndSubmit"}
    THEN <<p.transactionOperation>>
    ELSE <<>>

(* C5: an item whose resource or operation is not supported fails with an  *)
(* error whose message names the offending value; no SDK call is made for  *)
(* it and nothing of it reaches the network.                               *)
C5_UnsupportedFailsUntouched ==
    \A k \in DOMAIN params :
        OffendingValue(params[k]) # <<>> =>
            /\ calls[k] = <<>>
            /\ Submissions(k) = {}
            /\ \E f \in failed :
                /\ f.item = k
                /\ Len(f.message) = 2
                /\ f.message[2] = OffendingValue(params[k])[1]
                /\ IF continueOnFail
                   THEN returnData[k].json = [error |-> f.message]
                   ELSE pc = "thrown" /\ thrown.message = f.message

(* An unsupported account operation, captured as an error record. *)
C5_Witness ==
    \E k \in DOMAIN params :
        /\ params[k].resource = "account"
        /\ params[k].accountOperation = "delete"
        /\ continueOnFail
        /\ returnData[k].json.error[2] = "delete"

IsPrefix(s, t) == Len(s) <= Len(t) /\ s = SubSeq(t, 1, Len(s))

(* The bytes item k's transaction parameter holds. *)
SuppliedBytes(p) ==
    IF p.transactionFormat = "base64" THEN TxBytes ELSE p.transactionBuffer.data.items

(* C6: a sign item decodes and signs and submits nothing; a submit item    *)
(* decodes and submits the decoded transaction as it is, without signing;  *)
(* a signAndSubmit item decodes, signs, then submits, what it submits is   *)
(* the transaction carrying the operator's signature, and the              *)
(* signedTransaction it returns is the base64 form of what it submitted.   *)
C6_HandlerSequences ==
    \A k \in DOMAIN params :
        LET p == params[k]
            done == k <= Len(returnData) /\ ~IsErrorRecord(returnData[k])
        IN
        p.resource = "transaction" =>
            /\ p.transactionOperation = "sign" =>
                /\ IsPrefix(calls[k], <<"decode", "sign">>)
                /\ Submissions(k) = {}
                /\ done =>
                    /\ calls[k] = <<"decode", "sign">>
                    /\ FromBase64(returnData[k].json.signedTransaction)
                        = Append(SuppliedBytes(p), 255)
            /\ p.transactionOperation = "submit" =>
                /\ IsPrefix(calls[k], <<"decode", "execute", "getReceipt">>)
                /\ \A n \in Submissions(k) : network[n].tx.bytes = SuppliedBytes(p)
                /\ Cardinality(Submissions(k)) <= 1
                /\ done => Cardinality(Submissions(k)) = 1
            /\ p.transactionOperation = "signAndSubmit" =>
                /\ IsPrefix(calls[k], <<"decode", "sign", "execute", "getReceipt">>)
                /\ \A n \in Submissions(k) :
                    /\ network[n].tx.bytes = Append(SuppliedBytes(p), 255)
                    /\ done =>
                        FromBase64(returnData[k].json.signedTransaction) = network[n].tx.bytes
                /\ Cardinality(Submissions(k)) <= 1
                /\ done => Cardinality(Submissions(k)) = 1

(* A signAndSubmit item that ran to its record. *)
C6_Witness ==
    \E k \in DOMAIN params :
        /\ params[k].resource = "transaction"
        /\ params[k].transactionOperation = "signAndSubmit"
        /\ k <= Len(returnData)
        /\ "signedTransaction" \in DOMAIN returnData[k].json
        /\ Submissions(k) # {}

(* Item k's transaction is with the network and execute awaits the answer. *)
Submitted(k) == i = k /\ pc \in {"awaitExecute", "awaitReceipt"}

(* C7: every item that submits a transaction eventually leaves the         *)
(* Submitted state, also when the network never answers.                   *)
C7_SubmissionLeavesSubmitted ==
    \A k \in 1..MaxItems : Submitted(k) ~> ~Submitted(k)

(* Item k has been reported as failed: by an error record, or by the       *)
(* error execute threw.                                                    *)
ReportedFailed(k) ==
    \E f \in failed :
        /\ f.item = k
        /\ \/ k <= Len(returnData) /\ returnData[k].json = [error |-> f.message]
           \/ pc = "thrown" /\ thrown.message = f.message

ReceiptObserved(k) == \E n \in DOMAIN receipts : receipts[n].item = k

(* C8: a submission whose receipt is not observed is reported for its item *)
(* as an outcome of its own: once item k awaits its receipt, either the    *)
(* receipt is observed or the item is reported as failed without one.      *)
C8_MissingReceiptIsReported ==
    \A k \in 1..MaxItems :
        (i = k /\ pc = "awaitReceipt") ~> (ReceiptObserved(k) \/ ReportedFailed(k))

(* The request parameters the builders must refuse. *)
InvalidRequest(p, sender) ==
    /\ p.resource = "account"
    /\ \/ p.accountOperation = "transfer" /\ (p.amount <= 0 \/ p.recipientId = sender)
       \/ p.accountOperation = "create" /\ p.initialBalance < 0

(* C9: an item with invalid request parameters fails before the network is *)
(* touched: nothing is submitted for it.                                   *)
C9_InvalidRequestNeverSubmitted ==
    \A k \in DOMAIN params :
        InvalidRequest(params[k], creds.accountId) =>
            /\ Submissions(k) = {}
            /\ k \in FailedItems

RECURSIVE SumAmounts(_)
SumAmounts(transfers) ==
    IF transfers = <<>> THEN 0
    ELSE transfers[1].amount + SumAmounts(Tail(transfers))

(* C10: every transfer transaction handed to the network lists the sender  *)
(* (the operator account) with the negated amount, then the recipient with *)
(* the amount, both in tinybars, and its signed amounts sum to zero.       *)
C10_TransferZeroSum ==
    \A n \in DOMAIN network :
        LET tx == network[n].tx
            p == params[network[n].item]
        IN
        tx.type = "Transfer" =>
            /\ Len(tx.transfers) = 2
            /\ tx.transfers[1] = [accountId |-> creds.accountId,
                                  amount |-> 0 - p.amount * 100000000]
            /\ tx.transfers[2] = [accountId |-> p.recipientId,
                                  amount |-> p.amount * 100000000]
            /\ SumAmounts(tx.transfers) = 0

(* A transfer of 2 hbar from the operator to another account, submitted. *)
C10_Witness ==
    \E n \in DOMAIN network :
        /\ network[n].tx.type = "Transfer"
        /\ network[n].tx.transfers[1].amount = -200000000
        /\ network[n].tx.transfers[2].amount = 200000000
        /\ network[n].tx.transfers[1].accountId # network[n].tx.transfers[2].accountId

(***************************************************************************)
(* getTransactionBytes on its own: one call on the parameters of one item. *)
(***************************************************************************)
ByteValues == {0, 77, 255}

RECURSIVE SeqsUpTo(_, _)
SeqsUpTo(S, n) ==
    IF n = 0 THEN {<<>>}
    ELSE LET shorter == SeqsUpTo(S, n - 1)
         IN shorter \cup {Append(q, x) : q \in shorter, x \in S}

ByteSeqs == SeqsUpTo(ByteValues, MaxBytes)

(* The shapes of a byte array the helper's comment and error message name. *)
AcceptedShapes(b) ==
    {[data |-> JsArray(b)],
     [transBytes |-> [data |-> JsArray(b)]],
     [transBase64 |-> [data |-> JsArray(b)]],
     JsArray(b)}

(* transactionBuffer values in none of the accepted shapes. *)
OtherBufferValues ==
    {JsString(<<>>), JsNull, [other |-> 0],
     [data |-> JsNull], [data |-> JsNumber(0)], [data |-> JsNumber(7)],
     [data |-> JsString(<<104, 105>>)], [data |-> [other |-> 0]],
     [transBytes |-> JsArray(<<1>>)], [transBase64 |-> JsString(<<65, 81>>)]}

TransactionItem == [DefaultParams EXCEPT !.resource = "transaction"]

CodecParams ==
    {[TransactionItem EXCEPT !.transaction = ToBase64(b)] : b \in ByteSeqs}
    \cup {[TransactionItem EXCEPT !.transactionFormat = "buffer", !.transactionBuffer = v] :
            v \in UNION {AcceptedShapes(b) : b \in ByteSeqs} \cup OtherBufferValues}

CodecInit ==
    /\ creds = [defined |-> TRUE, accountId |-> OperatorId, privateKey |-> OperatorKey]
    /\ continueOnFail = FALSE
    /\ nItems = 1
    /\ pc = "getTransactionBytes"
    /\ i = 1
    /\ returnData = <<>>
    /\ thrown = NoError
    /\ txResponse = NoResponse
    /\ params \in {<<p>> : p \in CodecParams}
    /\ calls = <<>>
    /\ network = <<>>
    /\ receipts = <<>>
    /\ failed = {}
    /\ returnedBuffer = NoBuffer

(* const txBuffer = getTransactionBytes() *)
CallGetTransactionBytes ==
    /\ pc = "getTransactionBytes"
    /\ returnedBuffer' = GetTransactionBytes(params[1])
    /\ pc' = "gotTransactionBytes"
    /\ UNCHANGED <<creds, continueOnFail, nItems, i, returnData, thrown, txResponse,
                   params, calls, network, receipts, failed>>

CodecNext == CallGetTransactionBytes

CodecSpec == CodecInit /\ [][CodecNext]_vars

(* The parameters p supply the byte sequence b in one of the accepted forms. *)
Supplies(p, b) ==
    \/ p.transactionFormat = "base64" /\ p.transaction = ToBase64(b)
    \/ p.transactionFormat = "buffer" /\ p.transactionBuffer \in AcceptedShapes(b)

(* The two formats agree: a byte sequence supplied as its base64 string or *)
(* in any accepted shape of a byte array comes back as that sequence.      *)
FormatsAgree ==
    pc = "gotTransactionBytes" =>
        \A b \in ByteSeqs :
            Supplies(params[1], b) => returnedBuffer = [ok |-> TRUE, bytes |-> b]

(* C11: getTransactionBytes returns b whether b is supplied as its base64  *)
(* string or as a byte array in any accepted shape, and a buffer value in  *)
(* none of these shapes fails with the 'Invalid buffer object format'      *)
(* error instead of producing bytes.                                       *)
C11_SameBytesOrInvalidFormat ==
    pc = "gotTransactionBytes" =>
        LET p == params[1] IN
        /\ \A b \in ByteSeqs :
            Supplies(p, b) => returnedBuffer = [ok |-> TRUE, bytes |-> b]
        /\ (p.transactionFormat = "buffer"
            /\ p.transactionBuffer \notin UNION {AcceptedShapes(b) : b \in ByteSeqs}) =>
                /\ ~returnedBuffer.ok
                /\ returnedBuffer.err.kind = "NodeOperationError"
                /\ returnedBuffer.err.message =
                    <<"Invalid buffer object format. Expected object with data array or direct array.">>

(* The items are taken one at a time, in input order. *)
SequentialState ==
    /\ Len(params) <= nItems
    /\ pc = "loop" => Len(params) = i - 1
    /\ pc \in {"awaitExecute", "awaitReceipt"} => Len(params) = i
    /\ \A n \in DOMAIN network :
        /\ network[n].item <= Len(params)
        /\ \A m \in 1..(n - 1) : network[m].item < network[n].item

(* With continueOnFail off a failure is the first and the last one: execute *)
(* has thrown, the failed item is the last one started, and nothing of a    *)
(* later item has reached the network.                                      *)
FailFastState ==
    (~continueOnFail /\ failed # {}) =>
        /\ pc = "thrown"
        /\ thrown.kind = "NodeApiError"
        /\ \E k \in 1..nItems :
            /\ FailedItems = {k}
            /\ Len(params) = k
            /\ \A n \in DOMAIN network : network[n].item <= k

(* An item is started only from the top of the loop, after the items       *)
(* before it; once execute has thrown nothing more happens, so it never    *)
(* returns; and what was handed to the network stays handed.               *)
SequentialStep ==
    /\ pc # "thrown"
    /\ IsPrefix(params, params')
    /\ Len(params') <= Len(params) + 1
    /\ Len(params') = Len(params) + 1 => (pc = "loop" /\ Len(params') = i)
    /\ IsPrefix(network, network')

(* C12: items are processed strictly sequentially in input order; with     *)
(* continueOnFail off the first failing item k aborts the batch: no later  *)
(* item is started, nothing of a later item is submitted, execute throws   *)
(* instead of returning, and the transactions already submitted stay       *)
(* submitted.                                                              *)
C12_SequentialFailFast ==
    /\ [](SequentialState /\ FailFastState)
    /\ [][SequentialStep]_vars

(* The first of two items was submitted and then failed: execute threw,    *)
(* the second item was never started, the submission is still there.       *)
C12_Witness ==
    /\ ~continueOnFail
    /\ pc = "thrown"
    /\ nItems = 2
    /\ FailedItems = {1}
    /\ Len(params) = 1
    /\ Len(network) = 1
    /\ network[1].item = 1
    /\ returnData = <<>>

IsCreate(p) == p.resource = "account" /\ p.accountOperation = "create"

(* C13: a create whose receipt carries no accountId fails with 'Account    *)
(* creation failed: <status>' and yields no record with the new account's  *)
(* fields; a record with newAccountId, newAccountPublicKey or              *)
(* newAccountPrivateKey exists only for a create whose receipt carries an  *)
(* accountId, and its newAccountId is that accountId.                      *)
C13_CreateNeedsAccountId ==
    /\ \A n \in DOMAIN receipts :
        LET k == receipts[n].item
            receipt == receipts[n].receipt
        IN
        IsCreate(params[k]) =>
            IF receipt.accountId = "null"
            THEN /\ [item |-> k,
                     message |-> <<"Account creation failed: ", receipt.status>>] \in failed
                 /\ k <= Len(returnData) =>
                     returnData[k].json =
                         [error |-> <<"Account creation failed: ", receipt.status>>]
            ELSE /\ k \notin FailedItems
                 /\ k <= Len(returnData)
                 /\ DOMAIN returnData[k].json =
                     {"newAccountId", "newAccountPublicKey", "newAccountPrivateKey"}
                 /\ returnData[k].json.newAccountId = receipt.accountId
    /\ \A k \in DOMAIN returnData :
        ({"newAccountId", "newAccountPublicKey", "newAccountPrivateKey"}
            \cap DOMAIN returnData[k].json # {}) =>
            /\ IsCreate(params[k])
            /\ \E n \in DOMAIN receipts :
                /\ receipts[n].item = k
                /\ receipts[n].receipt.accountId # "null"
                /\ receipts[n].receipt.accountId = returnData[k].json.newAccountId

(* A create whose receipt has a non-success status and no accountId,       *)
(* captured as an error record.                                            *)
C13_Witness ==
    \E n \in DOMAIN receipts :
        /\ IsCreate(params[receipts[n].item])
        /\ receipts[n].receipt = [status |-> "INSUFFICIENT_ACCOUNT_BALANCE", accountId |-> "null"]
        /\ continueOnFail
        /\ returnData[receipts[n].item].json.error[2] = "INSUFFICIENT_ACCOUNT_BALANCE"

====
